---- MODULE Spec2Model ----
(***************************************************************************)
(* PoSWProof (dpc/src/posw/proof.rs): the two-variant proof wrapper, its   *)
(* binary and human-readable codecs, and verify.                           *)
(*                                                                         *)
(* Byte buffers have their real length and are held run-length encoded: a  *)
(* sequence of runs [byte, count], count >= 1, neighbouring runs of        *)
(* different bytes, so that equal buffers are equal values.  The byte      *)
(* alphabet is bounded.  Results are records [kind, val] with kind "Ok",   *)
(* "Err" or "Panic" (an unwrap()/expect() on an Err aborts the caller).    *)
(***************************************************************************)
EXTENDS Integers, Sequences, FiniteSets, TLC

VARIABLES hps, env, chan, ret

vars == <<hps, env, chan, ret>>

\* Largest byte value the model draws (real bytes are 0..255).
MaxByte == 1

Byte == 0..MaxByte

\* The literal 771 of size(), Vec::with_capacity(771) and deserialize_tuple(771, ..).
HIDING_SIZE == 771

\* N::HEADER_PROOF_SIZE_IN_BYTES of the networks (never above 771, the larger
\* of the two lengths).
HeaderProofSizes == {691, 771}

Ok(v) == [kind |-> "Ok", val |-> v]
Err(m) == [kind |-> "Err", val |-> [msg |-> m]]
Panic(m) == [kind |-> "Panic", val |-> [msg |-> m]]

IsOk(r) == r.kind = "Ok"

Run(b, n) == [byte |-> b, count |-> n]

\* buf followed by n bytes b
Push(buf, b, n) ==
    IF n <= 0 THEN buf
    ELSE IF buf # <<>> /\ buf[Len(buf)].byte = b
         THEN [buf EXCEPT ![Len(buf)].count = @ + n]
    ELSE Append(buf, Run(b, n))

\* a followed by b
RECURSIVE Concat(_, _)
Concat(a, b) ==
    IF b = <<>> THEN a ELSE Concat(Push(a, Head(b).byte, Head(b).count), Tail(b))

\* buf.len()
RECURSIVE ByteLen(_)
ByteLen(buf) == IF buf = <<>> THEN 0 ELSE Head(buf).count + ByteLen(Tail(buf))

\* buf[i - 1], for 1 <= i <= ByteLen(buf)
RECURSIVE ByteAt(_, _)
ByteAt(buf, i) ==
    IF i <= Head(buf).count THEN Head(buf).byte
    ELSE ByteAt(Tail(buf), i - Head(buf).count)

\* the first n bytes of buf
RECURSIVE Take(_, _)
Take(buf, n) ==
    IF n <= 0 \/ buf = <<>> THEN <<>>
    ELSE IF Head(buf).count >= n THEN <<Run(Head(buf).byte, n)>>
    ELSE <<Head(buf)>> \o Take(Tail(buf), n - Head(buf).count)

\* buf without its first n bytes
RECURSIVE Drop(_, _)
Drop(buf, n) ==
    IF n <= 0 \/ buf = <<>> THEN buf
    ELSE IF Head(buf).count > n
         THEN <<Run(Head(buf).byte, Head(buf).count - n)>> \o Tail(buf)
    ELSE Drop(Tail(buf), n - Head(buf).count)

\* &buf[a - 1 .. b]: bytes a to b, counted from 1
Slice(buf, a, b) == Take(Drop(buf, a - 1), b - a + 1)

\* A buffer of n >= 2 bytes: head byte h, tail byte t, zero bytes between them.
Bytes(h, t, n) == Push(Push(Push(<<>>, h, 1), 0, n - 2), t, 1)

(***************************************************************************)
(* The proof types' own little-endian codecs (N::PoSWProof and             *)
(* DeprecatedPoSWProof implement FromBytes/ToBytes elsewhere).  A current  *)
(* proof is a commitment byte, which must be non-zero to be a valid        *)
(* encoding, followed by evaluation bytes; a deprecated proof is           *)
(* commitment bytes followed by a final byte that must be non-zero.        *)
(***************************************************************************)
NonHidingProofs(n) ==
    {[commitment |-> h, evaluations |-> Bytes(0, t, n - 1)] :
        h \in 1..MaxByte, t \in Byte}

HidingProofs ==
    {[commitments |-> Bytes(h, 0, HIDING_SIZE - 1), randomness |-> t] :
        h \in Byte, t \in 1..MaxByte}

\* N::PoSWProof::write_le
NonHidingWriteLe(proof) == Concat(<<Run(proof.commitment, 1)>>, proof.evaluations)

\* N::PoSWProof::read_le on a slice, for the network whose proofs have n bytes
NonHidingReadLe(bytes, n) ==
    IF ByteLen(bytes) < n THEN Err("unexpected end of input")
    ELSE IF ByteAt(bytes, 1) = 0 THEN Err("invalid commitment")
    ELSE Ok([commitment |-> ByteAt(bytes, 1), evaluations |-> Slice(bytes, 2, n)])

\* DeprecatedPoSWProof::write_le
HidingWriteLe(proof) == Concat(proof.commitments, <<Run(proof.randomness, 1)>>)

\* DeprecatedPoSWProof::read_le on a slice
HidingReadLe(bytes) ==
    IF ByteLen(bytes) < HIDING_SIZE THEN Err("unexpected end of input")
    ELSE IF ByteAt(bytes, HIDING_SIZE) = 0 THEN Err("invalid randomness")
    ELSE Ok([commitments |-> Slice(bytes, 1, HIDING_SIZE - 1),
             randomness |-> ByteAt(bytes, HIDING_SIZE)])

(***************************************************************************)
(* enum PoSWProof and its inherent methods                                 *)
(***************************************************************************)
NonHiding(proof) == [tag |-> "NonHiding", proof |-> proof]
Hiding(proof) == [tag |-> "Hiding", proof |-> proof]

NoEnvelope == [tag |-> "None"]

\* #[derive(PartialEq, Eq)]: the same variant holding equal payloads
eq(a, b) == a.tag = b.tag /\ a.proof = b.proof

new(proof) == NonHiding(proof)

new_hiding(proof) == Hiding(proof)

is_hiding(self) ==
    CASE self.tag = "NonHiding" -> FALSE
      [] self.tag = "Hiding" -> TRUE

\* size() with the literal 771 forgotten: the network's size for both variants
size_network_only(self, n) == n

size(self, n) ==
    CASE self.tag = "NonHiding" -> n
      [] self.tag = "Hiding" -> 771

\* ToBytes::write_le
write_le(self) ==
    CASE self.tag = "NonHiding" -> NonHidingWriteLe(self.proof)
      [] self.tag = "Hiding" -> HidingWriteLe(self.proof)

\* Serialize::serialize, not human-readable: ToBytesSerializer writes the
\* bytes of write_le as a tuple, which bincode emits with no length prefix.
serialize_bytes(self) == write_le(self)

\* deserialize with the deprecated proof read from the truncated slice
deserialize_bytes_truncated(input, n) ==
    IF ByteLen(input) < 771 THEN Err("unexpected end of input")
    ELSE LET buffer == Slice(input, 1, 771) IN
         IF IsOk(NonHidingReadLe(Slice(buffer, 1, n), n))
         THEN Ok(NonHiding(NonHidingReadLe(Slice(buffer, 1, n), n).val))
         ELSE IF IsOk(HidingReadLe(Slice(buffer, 1, n)))
              THEN Ok(Hiding(HidingReadLe(Slice(buffer, 1, n)).val))
         ELSE Err("Invalid byte deserialization")

\* deserialize with the two attempts in the other order
deserialize_bytes_hiding_first(input, n) ==
    IF ByteLen(input) < 771 THEN Err("unexpected end of input")
    ELSE LET buffer == Slice(input, 1, 771) IN
         IF IsOk(HidingReadLe(buffer))
         THEN Ok(Hiding(HidingReadLe(buffer).val))
         ELSE IF IsOk(NonHidingReadLe(Slice(buffer, 1, n), n))
              THEN Ok(NonHiding(NonHidingReadLe(Slice(buffer, 1, n), n).val))
         ELSE Err("Invalid byte deserialization")

\* Deserialize::deserialize, not human-readable, on the bytes the
\* deserializer holds; n is N::HEADER_PROOF_SIZE_IN_BYTES.
deserialize_bytes(input, n) ==
    IF ByteLen(input) < 771 THEN Err("unexpected end of input")
    ELSE LET buffer == Slice(input, 1, 771) IN
         IF n > ByteLen(buffer) THEN Panic("range end index out of range")
         ELSE IF IsOk(NonHidingReadLe(Slice(buffer, 1, n), n))
              THEN Ok(NonHiding(NonHidingReadLe(Slice(buffer, 1, n), n).val))
         ELSE IF IsOk(HidingReadLe(buffer))
              THEN Ok(Hiding(HidingReadLe(buffer).val))
         ELSE Err("Invalid byte deserialization")

\* FromBytes::read_le: Ok(bincode::deserialize_from(reader).expect("FAILED"))
read_le(reader, n) ==
    IF IsOk(deserialize_bytes(reader, n)) \/ deserialize_bytes(reader, n).kind = "Panic"
    THEN deserialize_bytes(reader, n)
    ELSE Panic("FAILED")

(***************************************************************************)
(* JSON as serde_json sees it.  A Value is null, a string or an object     *)
(* (its members in order; a later member of the same name replaces an      *)
(* earlier one).  Text is a sequence of tokens.                            *)
(***************************************************************************)
JNull == [type |-> "null"]
JString(s) == [type |-> "string", s |-> s]
JObject(members) == [type |-> "object", members |-> members]
Member(name, value) == [name |-> name, value |-> value]

\* serde_json's `value[key]`: Null unless value is an object holding key
Index(value, key) ==
    IF value.type = "object" /\ \E k \in DOMAIN value.members : value.members[k].name = key
    THEN LET last == CHOOSE k \in DOMAIN value.members :
                        /\ value.members[k].name = key
                        /\ \A j \in DOMAIN value.members :
                              value.members[j].name = key => j <= k
         IN value.members[last].value
    ELSE JNull

TokLBrace == [t |-> "{"]
TokRBrace == [t |-> "}"]
TokColon == [t |-> ":"]
TokComma == [t |-> ","]
TokNull == [t |-> "null"]
TokName(name) == [t |-> "name", name |-> name]
TokString(s) == [t |-> "string", s |-> s]

RECURSIVE MembersToText(_)
MembersToText(members) ==
    IF members = <<>> THEN <<>>
    ELSE LET m == Head(members)
             v == IF m.value.type = "string" THEN TokString(m.value.s) ELSE TokNull
         IN <<TokName(m.name), TokColon, v>>
            \o (IF Len(members) > 1 THEN <<TokComma>> ELSE <<>>)
            \o MembersToText(Tail(members))

\* serde_json::to_string of a Value (objects hold strings and nulls)
ValueToText(value) ==
    CASE value.type = "null" -> <<TokNull>>
      [] value.type = "string" -> <<TokString(value.s)>>
      [] value.type = "object" ->
            <<TokLBrace>> \o MembersToText(value.members) \o <<TokRBrace>>

TokenToValue(tok) == IF tok.t = "string" THEN JString(tok.s) ELSE JNull

\* serde_json's parse of a text into a Value; trailing tokens are an error
TextToValue(text) ==
    LET n == Len(text)
        inner == SubSeq(text, 2, n - 1)
        count == (Len(inner) + 1) \div 4
    IN IF n = 1 /\ text[1].t \in {"null", "string"} THEN Ok(TokenToValue(text[1]))
       ELSE IF n >= 2 /\ text[1].t = "{" /\ text[n].t = "}"
               /\ (Len(inner) = 0 \/ Len(inner) = 4 * count - 1)
               /\ \A k \in 1..count :
                     /\ inner[4 * k - 3].t = "name"
                     /\ inner[4 * k - 2].t = ":"
                     /\ inner[4 * k - 1].t \in {"null", "string"}
                     /\ k < count => inner[4 * k].t = ","
            THEN Ok(JObject([k \in 1..count |->
                        Member(inner[4 * k - 3].name, TokenToValue(inner[4 * k - 1]))]))
       ELSE Err("expected value")

(***************************************************************************)
(* The proof types' own human-readable codecs: a string of the proof's     *)
(* bytes.                                                                  *)
(***************************************************************************)
\* Serialize for N::PoSWProof, human-readable
NonHidingToValue(proof) == JString(NonHidingWriteLe(proof))

\* serde_json::from_value::<N::PoSWProof>
NonHidingFromValue(value, n) ==
    IF value.type # "string" THEN Err("invalid type")
    ELSE IF ByteLen(value.s) # n THEN Err("invalid length")
    ELSE NonHidingReadLe(value.s, n)

\* Serialize for DeprecatedPoSWProof, human-readable
HidingToValue(proof) == JString(HidingWriteLe(proof))

\* serde_json::from_value::<DeprecatedPoSWProof>
HidingFromValue(value) ==
    IF value.type # "string" THEN Err("invalid type")
    ELSE IF ByteLen(value.s) # HIDING_SIZE THEN Err("invalid length")
    ELSE HidingReadLe(value.s)

(***************************************************************************)
(* PoSWProof: human-readable codec and text                                *)
(***************************************************************************)
\* serialize with the two field names swapped
serialize_human_swapped(self) ==
    CASE self.tag = "NonHiding" ->
            JObject(<<Member("hiding", NonHidingToValue(self.proof))>>)
      [] self.tag = "Hiding" ->
            JObject(<<Member("non_hiding", HidingToValue(self.proof))>>)

\* serialize with the other field written too, as null
serialize_human_both(self) ==
    CASE self.tag = "NonHiding" ->
            JObject(<<Member("non_hiding", NonHidingToValue(self.proof)),
                      Member("hiding", JNull)>>)
      [] self.tag = "Hiding" ->
            JObject(<<Member("non_hiding", JNull),
                      Member("hiding", HidingToValue(self.proof))>>)

\* Serialize::serialize, human-readable: a struct of one field
serialize_human(self) ==
    CASE self.tag = "NonHiding" ->
            JObject(<<Member("non_hiding", NonHidingToValue(self.proof))>>)
      [] self.tag = "Hiding" ->
            JObject(<<Member("hiding", HidingToValue(self.proof))>>)

\* deserialize with the hiding field tried first
deserialize_human_hiding_first(parsed, n) ==
    IF ~IsOk(parsed) THEN parsed
    ELSE LET proof == parsed.val IN
         IF IsOk(HidingFromValue(Index(proof, "hiding")))
         THEN Ok(Hiding(HidingFromValue(Index(proof, "hiding")).val))
         ELSE IF IsOk(NonHidingFromValue(Index(proof, "non_hiding"), n))
              THEN Ok(NonHiding(NonHidingFromValue(Index(proof, "non_hiding"), n).val))
         ELSE Err("Invalid human-readable deserialization")

\* Deserialize::deserialize, human-readable, on the Value read from the
\* deserializer (parsed is serde_json's result for the text)
deserialize_human(parsed, n) ==
    IF ~IsOk(parsed) THEN parsed
    ELSE LET proof == parsed.val IN
         IF IsOk(NonHidingFromValue(Index(proof, "non_hiding"), n))
         THEN Ok(NonHiding(NonHidingFromValue(Index(proof, "non_hiding"), n).val))
         ELSE IF IsOk(HidingFromValue(Index(proof, "hiding")))
              THEN Ok(Hiding(HidingFromValue(Index(proof, "hiding")).val))
         ELSE Err("Invalid human-readable deserialization")

\* serde_json::to_string(&proof)
serde_json_to_string(self) == ValueToText(serialize_human(self))

\* serde_json::from_str::<PoSWProof>(text)
serde_json_from_str(text, n) == deserialize_human(TextToValue(text), n)

\* FromStr::from_str
from_str(header, n) == serde_json_from_str(header, n)

\* Display::fmt, as to_string() returns it
fmt(self) == serde_json_to_string(self)

(***************************************************************************)
(* Verifying keys and verify.  A key is a layout byte and a body byte; the *)
(* deprecated key format reads the same bytes and accepts layout 0 only.   *)
(* ext holds what the collaborators answer in this call: the SNARK's       *)
(* verify ("Ok_true", "Ok_false" or "Err") and whether to_bytes_le of the  *)
(* key succeeds.                                                           *)
(***************************************************************************)
VerifyingKeys == {[layout |-> l, body |-> 1] : l \in Byte}

InputVectors == {<<b>> : b \in Byte}

ExternalAnswers ==
    {[verify |-> v, to_bytes_le |-> s] :
        v \in {"Ok_true", "Ok_false", "Err"}, s \in {"Ok", "Err"}}

\* VerifyingKey::to_bytes_le
KeyToBytesLe(verifying_key) ==
    Push(Push(<<>>, verifying_key.layout, 1), verifying_key.body, 1)

\* DeprecatedPoSWSNARK VerifyingKey::from_bytes_le
DeprecatedKeyFromBytesLe(bytes) ==
    IF ByteLen(bytes) < 2 THEN Err("unexpected end of input")
    ELSE IF ByteAt(bytes, 1) # 0 THEN Err("incompatible verifying key")
    ELSE Ok([deprecated_body |-> ByteAt(bytes, 2)])

Return(v) == [kind |-> "Return", bool |-> v]

Outcome(out, calls, log) == [out |-> out, calls |-> calls, log |-> log]

VerifierCall(snark, vk, inputs, proof) ==
    [snark |-> snark, vk |-> vk, inputs |-> inputs, proof |-> proof]

\* verify with the deprecated SNARK given the supplied key, not the derived one
verify_supplied_key(self, verifying_key, inputs, ext) ==
    CASE self.tag = "NonHiding" ->
            LET call == VerifierCall("PoSWSNARK", verifying_key, inputs, self.proof) IN
            IF ext.verify = "Err"
            THEN Outcome(Panic("called unwrap on an Err value"), <<call>>, <<>>)
            ELSE Outcome(Return(ext.verify = "Ok_true"), <<call>>, <<>>)
      [] self.tag = "Hiding" ->
            LET call == VerifierCall("DeprecatedPoSWSNARK", verifying_key, inputs,
                                     self.proof) IN
            IF ext.verify = "Err"
            THEN Outcome(Panic("called unwrap on an Err value"), <<call>>, <<>>)
            ELSE Outcome(Return(ext.verify = "Ok_true"), <<call>>, <<>>)

verify(self, verifying_key, inputs, ext) ==
    CASE self.tag = "NonHiding" ->
            LET call == VerifierCall("PoSWSNARK", verifying_key, inputs, self.proof) IN
            IF ext.verify = "Err"
            THEN Outcome(Panic("called unwrap on an Err value"), <<call>>, <<>>)
            ELSE IF ext.verify = "Ok_false"
                 THEN Outcome(Return(FALSE), <<call>>, <<"PoSW proof verification failed">>)
            ELSE Outcome(Return(TRUE), <<call>>, <<>>)
      [] self.tag = "Hiding" ->
            IF ext.to_bytes_le = "Err"
            THEN Outcome(Panic("called unwrap on an Err value"), <<>>, <<>>)
            ELSE LET vk == DeprecatedKeyFromBytesLe(KeyToBytesLe(verifying_key)) IN
                 IF ~IsOk(vk)
                 THEN Outcome(Return(FALSE), <<>>,
                              <<"Failed to read deprecated PoSW VK from bytes">>)
                 ELSE LET call == VerifierCall("DeprecatedPoSWSNARK", vk.val, inputs,
                                               self.proof) IN
                      IF ext.verify = "Err"
                      THEN Outcome(Panic("called unwrap on an Err value"), <<call>>, <<>>)
                      ELSE IF ext.verify = "Ok_false"
                           THEN Outcome(Return(FALSE), <<call>>,
                                        <<"[deprecated] PoSW proof verification failed">>)
                      ELSE Outcome(Return(TRUE), <<call>>, <<>>)

(***************************************************************************)
(* State: the network's proof size, the envelope at hand, the message in   *)
(* flight (bytes or text, and the envelope it was written from, if any),   *)
(* and the record of the last call.  A run either builds an envelope from  *)
(* a proof and works with it, or receives a message and decodes it.        *)
(***************************************************************************)
NoMessage == [kind |-> "none"]

\* Byte buffers that arrive from outside: every head/tail pattern at the
\* network's proof length, at 771, one byte short of 771 and one byte more.
ReceivedBuffers(n) ==
    {Bytes(h, t, len) : h \in Byte, t \in Byte,
                        len \in {n, HIDING_SIZE - 1, HIDING_SIZE, HIDING_SIZE + 1}}

\* What a field of a received object may hold: null or a string of len bytes.
FieldValues(len) == {JNull} \cup {JString(Bytes(h, t, len)) : h \in Byte, t \in Byte}

\* Texts that arrive from outside: objects with any of the fields
\* non_hiding, hiding and one unrecognised field, bare values, and texts
\* that are not JSON.
ReceivedTexts(n) ==
    {ValueToText(JObject(a \o b \o c)) :
        a \in {<<>>} \cup {<<Member("non_hiding", v)>> : v \in FieldValues(n)},
        b \in {<<>>} \cup {<<Member("hiding", v)>> : v \in FieldValues(HIDING_SIZE)},
        c \in {<<>>, <<Member("extra", JNull)>>}}
    \cup {ValueToText(v) : v \in FieldValues(n)}
    \cup {<<TokLBrace>>, <<TokLBrace, TokName("hiding"), TokRBrace>>}

Init ==
    /\ hps \in HeaderProofSizes
    /\ env = NoEnvelope
    /\ chan = NoMessage
    /\ ret = [op |-> "init"]

New ==
    /\ env = NoEnvelope
    /\ chan = NoMessage
    /\ \E p \in NonHidingProofs(hps) :
        /\ env' = new(p)
        /\ ret' = [op |-> "new"]
        /\ UNCHANGED <<hps, chan>>

NewHiding ==
    /\ env = NoEnvelope
    /\ chan = NoMessage
    /\ \E p \in HidingProofs :
        /\ env' = new_hiding(p)
        /\ ret' = [op |-> "new_hiding"]
        /\ UNCHANGED <<hps, chan>>

IsHiding ==
    /\ env # NoEnvelope
    /\ ret' = [op |-> "is_hiding", hiding |-> is_hiding(env)]
    /\ UNCHANGED <<hps, env, chan>>

Size ==
    /\ env # NoEnvelope
    /\ ret' = [op |-> "size", bytes |-> size(env, hps)]
    /\ UNCHANGED <<hps, env, chan>>

Verify ==
    /\ env # NoEnvelope
    /\ \E vk \in VerifyingKeys, inputs \in InputVectors, ext \in ExternalAnswers :
        ret' = [op |-> "verify", self |-> env, verifying_key |-> vk,
                inputs |-> inputs, ext |-> ext, res |-> verify(env, vk, inputs, ext)]
    /\ UNCHANGED <<hps, env, chan>>

WriteLe ==
    /\ env # NoEnvelope
    /\ chan' = [kind |-> "bytes", data |-> write_le(env), of |-> env]
    /\ ret' = [op |-> "write_le"]
    /\ UNCHANGED <<hps, env>>

SerializeBytes ==
    /\ env # NoEnvelope
    /\ chan' = [kind |-> "bytes", data |-> serialize_bytes(env), of |-> env]
    /\ ret' = [op |-> "serialize_bytes"]
    /\ UNCHANGED <<hps, env>>

Fmt ==
    /\ env # NoEnvelope
    /\ chan' = [kind |-> "text", text |-> fmt(env), of |-> env]
    /\ ret' = [op |-> "to_string"]
    /\ UNCHANGED <<hps, env>>

SerdeJsonToString ==
    /\ env # NoEnvelope
    /\ chan' = [kind |-> "text", text |-> serde_json_to_string(env), of |-> env]
    /\ ret' = [op |-> "serde_json_to_string"]
    /\ UNCHANGED <<hps, env>>

ReceiveBytes ==
    /\ env = NoEnvelope
    /\ chan = NoMessage
    /\ \E b \in ReceivedBuffers(hps) :
        /\ chan' = [kind |-> "bytes", data |-> b, of |-> NoEnvelope]
        /\ ret' = [op |-> "receive_bytes"]
        /\ UNCHANGED <<hps, env>>

ReceiveText ==
    /\ env = NoEnvelope
    /\ chan = NoMessage
    /\ \E t \in ReceivedTexts(hps) :
        /\ chan' = [kind |-> "text", text |-> t, of |-> NoEnvelope]
        /\ ret' = [op |-> "receive_text"]
        /\ UNCHANGED <<hps, env>>

ReadLe ==
    /\ chan.kind = "bytes"
    /\ ret' = [op |-> "read_le", out |-> read_le(chan.data, hps)]
    /\ UNCHANGED <<hps, env, chan>>

DeserializeBytes ==
    /\ chan.kind = "bytes"
    /\ ret' = [op |-> "deserialize_bytes", out |-> deserialize_bytes(chan.data, hps)]
    /\ UNCHANGED <<hps, env, chan>>

FromStr ==
    /\ chan.kind = "text"
    /\ ret' = [op |-> "from_str", out |-> from_str(chan.text, hps)]
    /\ UNCHANGED <<hps, env, chan>>

SerdeJsonFromStr ==
    /\ chan.kind = "text"
    /\ ret' = [op |-> "serde_json_from_str", out |-> serde_json_from_str(chan.text, hps)]
    /\ UNCHANGED <<hps, env, chan>>

Next ==
    \/ New
    \/ NewHiding
    \/ IsHiding
    \/ Size
    \/ Verify
    \/ WriteLe
    \/ SerializeBytes
    \/ Fmt
    \/ SerdeJsonToString
    \/ ReceiveBytes
    \/ ReceiveText
    \/ ReadLe
    \/ DeserializeBytes
    \/ FromStr
    \/ SerdeJsonFromStr

Spec == Init /\ [][Next]_vars

(***************************************************************************)
(* Properties                                                              *)
(***************************************************************************)
BinaryDecodeOps == {"read_le", "deserialize_bytes"}
TextDecodeOps == {"from_str", "serde_json_from_str"}
TextEncodeOps == {"to_string", "serde_json_to_string"}

\* The last call decoded the bytes in flight and returned envelope e.
DecodedAs(e) == ret.out.kind = "Ok" /\ eq(ret.out.val, e)

\* The first HEADER_PROOF_SIZE bytes of the buffer in flight, read as a current proof.
PrefixAsNonHiding == NonHidingReadLe(Slice(chan.data, 1, hps), hps)

\* C1: binary round trip, current variant: decoding the bytes written from
\* new(P) succeeds and returns new(P), on every network and by every binary
\* decode entry point.
C1_BinaryRoundTripCurrent ==
    (ret.op \in BinaryDecodeOps /\ chan.kind = "bytes" /\ chan.of.tag = "NonHiding")
        => DecodedAs(chan.of)

\* C2 as stated: decoding the bytes written from new_hiding(P) returns
\* new_hiding(P), whatever the leading bytes of P are.
C2_BinaryRoundTripLegacy ==
    (ret.op \in BinaryDecodeOps /\ chan.kind = "bytes" /\ chan.of.tag = "Hiding")
        => DecodedAs(chan.of) /\ is_hiding(ret.out.val)

\* C2 amended: decoding the bytes written from new_hiding(P) returns
\* new_hiding(P), tag and payload, provided the first HEADER_PROOF_SIZE
\* bytes of P's encoding do not themselves decode as a current proof.
C2_BinaryRoundTripLegacyUnambiguous ==
    (/\ ret.op \in BinaryDecodeOps
     /\ chan.kind = "bytes"
     /\ chan.of.tag = "Hiding"
     /\ ~IsOk(PrefixAsNonHiding))
        => DecodedAs(chan.of) /\ is_hiding(ret.out.val)

C2_Witness ==
    /\ ret.op = "read_le"
    /\ chan.kind = "bytes"
    /\ chan.of.tag = "Hiding"
    /\ ~IsOk(PrefixAsNonHiding)
    /\ DecodedAs(chan.of)

\* C3: a 771-byte buffer that decodes as neither variant makes every binary
\* decode entry point return an error: no envelope, no panic.
C3_MalformedBinaryIsError ==
    (/\ ret.op \in BinaryDecodeOps
     /\ chan.kind = "bytes"
     /\ ByteLen(chan.data) = HIDING_SIZE
     /\ ~IsOk(PrefixAsNonHiding)
     /\ ~IsOk(HidingReadLe(chan.data)))
        => ret.out.kind = "Err"

\* C4: verify never panics, and returns false when the SNARK's verify
\* returns Err or the key cannot be serialized.
C4_VerifyNeverRaises ==
    ret.op = "verify" =>
        /\ ret.res.out.kind = "Return"
        /\ (\/ (ret.res.calls # <<>> /\ ret.ext.verify = "Err")
            \/ (ret.self.tag = "Hiding" /\ ret.ext.to_bytes_le = "Err"))
              => ret.res.out.bool = FALSE

\* C5: on a 771-byte buffer, binary decode returns the current envelope of
\* the decoded prefix whenever the prefix decodes as a current proof, also
\* when the buffer decodes as a deprecated proof too; it returns a deprecated
\* envelope only when the prefix does not decode and the whole buffer does.
C5_SniffingPriority ==
    (ret.op \in BinaryDecodeOps /\ chan.kind = "bytes" /\ ByteLen(chan.data) = HIDING_SIZE)
        => /\ IsOk(PrefixAsNonHiding) => DecodedAs(NonHiding(PrefixAsNonHiding.val))
           /\ (ret.out.kind = "Ok" /\ ret.out.val.tag = "Hiding")
                => /\ ~IsOk(PrefixAsNonHiding)
                   /\ IsOk(HidingReadLe(chan.data))
                   /\ ret.out.val.proof = HidingReadLe(chan.data).val
           /\ (~IsOk(PrefixAsNonHiding) /\ IsOk(HidingReadLe(chan.data)))
                => DecodedAs(Hiding(HidingReadLe(chan.data).val))

C5_Witness ==
    /\ ret.op = "deserialize_bytes"
    /\ chan.kind = "bytes"
    /\ ByteLen(chan.data) = HIDING_SIZE
    /\ IsOk(PrefixAsNonHiding)
    /\ IsOk(HidingReadLe(chan.data))
    /\ DecodedAs(NonHiding(PrefixAsNonHiding.val))

\* The raw little-endian bytes of the payload an envelope holds.
PayloadBytes(e) ==
    IF e.tag = "NonHiding" THEN NonHidingWriteLe(e.proof) ELSE HidingWriteLe(e.proof)

ExpectedSize(e) == IF e.tag = "NonHiding" THEN hps ELSE HIDING_SIZE

\* C6: size() is HEADER_PROOF_SIZE for a current envelope and 771 for a
\* deprecated one, on every network, and write_le and bincode's serialize
\* emit exactly that many bytes: the payload's bytes, no tag, no length.
C6_LengthInvariant ==
    /\ ret.op = "size" => ret.bytes = ExpectedSize(env)
    /\ ret.op \in {"write_le", "serialize_bytes"}
        => /\ ByteLen(chan.data) = size(env, hps)
           /\ ByteLen(chan.data) = ExpectedSize(env)
           /\ chan.data = PayloadBytes(env)

C6_Witness ==
    /\ ret.op = "serialize_bytes"
    /\ env.tag = "Hiding"
    /\ hps < HIDING_SIZE
    /\ ByteLen(chan.data) = HIDING_SIZE
    /\ size(env, hps) = HIDING_SIZE

\* C7: to_string(E) is the JSON serialization of E, and from_str of it
\* succeeds and equals E, for both variants.
C7_TextRoundTrip ==
    /\ ret.op = "to_string" => chan.text = ValueToText(serialize_human(env))
    /\ (ret.op \in TextDecodeOps /\ chan.kind = "text" /\ chan.of.tag # "None")
        => DecodedAs(chan.of)

C7_Witness ==
    /\ ret.op = "from_str"
    /\ chan.kind = "text"
    /\ chan.of.tag = "Hiding"
    /\ DecodedAs(chan.of)

\* The members of the object the text in flight parses to.
WrittenMembers == TextToValue(chan.text).val.members

FieldOf(value, name) ==
    IF value.type = "object" /\ \E k \in DOMAIN value.members : value.members[k].name = name
    THEN value.members[CHOOSE k \in DOMAIN value.members : value.members[k].name = name].value
    ELSE JNull

\* A parsed value without the fields the decoder does not recognise.
Recognised(value) ==
    IF value.type = "object"
    THEN JObject(SelectSeq(value.members, LAMBDA m : m.name \in {"non_hiding", "hiding"}))
    ELSE value

\* C9: on a parsed value the human-readable decoder returns a current
\* envelope if the non_hiding field decodes as a current proof, else a
\* deprecated envelope if the hiding field decodes as a deprecated proof,
\* else an error (also when the value is no object); other fields never
\* change the outcome.
C9_HumanDecodeDecision ==
    (ret.op \in TextDecodeOps /\ chan.kind = "text" /\ IsOk(TextToValue(chan.text)))
        => LET value == TextToValue(chan.text).val
               cur == NonHidingFromValue(FieldOf(value, "non_hiding"), hps)
               leg == HidingFromValue(FieldOf(value, "hiding"))
           IN /\ IsOk(cur) => DecodedAs(NonHiding(cur.val))
              /\ (~IsOk(cur) /\ IsOk(leg)) => DecodedAs(Hiding(leg.val))
              /\ (~IsOk(cur) /\ ~IsOk(leg)) => ret.out.kind = "Err"
              /\ ret.out.kind = deserialize_human(Ok(Recognised(value)), hps).kind
              /\ ret.out.kind = "Ok" =>
                    DecodedAs(deserialize_human(Ok(Recognised(value)), hps).val)

C9_Witness ==
    /\ ret.op = "serde_json_from_str"
    /\ chan.kind = "text"
    /\ IsOk(TextToValue(chan.text))
    /\ TextToValue(chan.text).val.type = "object"
    /\ Len(TextToValue(chan.text).val.members) = 3
    /\ TextToValue(chan.text).val.members[3].name = "extra"
    /\ ~IsOk(NonHidingFromValue(FieldOf(TextToValue(chan.text).val, "non_hiding"), hps))
    /\ ret.out.kind = "Ok"
    /\ ret.out.val.tag = "Hiding"

\* verify returned b to its caller.
Returned(b) == ret.res.out.kind = "Return" /\ ret.res.out.bool = b

\* C10: for a deprecated envelope verify derives the deprecated key from the
\* bytes of the supplied key; if that fails it returns false and the SNARK
\* is not invoked; otherwise the deprecated SNARK is invoked once with the
\* derived key, the same inputs and the payload, and verify returns true
\* iff the SNARK returns Ok(true).  Envelope, key and inputs are unchanged.
C10_LegacyVerificationPath ==
    (ret.op = "verify" /\ env.tag = "Hiding" /\ ret.ext.to_bytes_le = "Ok")
        => LET derived == DeprecatedKeyFromBytesLe(KeyToBytesLe(ret.verifying_key)) IN
           /\ eq(ret.self, env)
           /\ ~IsOk(derived) =>
                 /\ Returned(FALSE)
                 /\ ret.res.calls = <<>>
           /\ IsOk(derived) =>
                 /\ ret.res.calls = <<VerifierCall("DeprecatedPoSWSNARK", derived.val,
                                                   ret.inputs, env.proof)>>
                 /\ Returned(TRUE) <=> ret.ext.verify = "Ok_true"

C10_Witness ==
    /\ ret.op = "verify"
    /\ env.tag = "Hiding"
    /\ ret.ext.to_bytes_le = "Ok"
    /\ Len(ret.res.calls) = 1
    /\ Returned(TRUE)

====
